---- MODULE Spec2Model ----
(***************************************************************************)
(* Execution lifecycle of the agent orchestrator.                          *)
(*                                                                         *)
(* The state is the committed table of executions, the checkpoint store of *)
(* the graph runtime (its own autocommit connection), and the requests in  *)
(* flight.  Every request owns one database session: what it flushes stays *)
(* private to the session until get_db_session commits it, and is dropped  *)
(* when get_db_session rolls back (READ COMMITTED, the engine's default).  *)
(***************************************************************************)
EXTENDS Integers, Sequences, FiniteSets, TLC

\* ---------------------------------------------------------------- bounds
MaxReq == 3          \* requests submitted in one behaviour
MaxInFlight == 1     \* requests being served at the same time

ReqIds == 1..MaxInFlight     \* worker slots
ExecIds == 1..MaxReq         \* every request creates at most one row
ThreadIds == 1..MaxReq       \* generated thread ids

\* ------------------------------------------------------- values and rows
\* A nullable column or Optional value: <<>> is None, <<v>> is the value v.
Null == <<>>
Some(v) == <<v>>

\* The workflow under execution: __start__ -> A -> B -> C -> __end__.
Nodes == <<"A", "B", "C">>

\* Request bodies: the key set of the input dict.
Inputs == {{}, {"query"}}

\* ExecutionStatus
PENDING == "pending"
RUNNING == "running"
COMPLETED == "completed"
FAILED == "failed"
CANCELLED == "cancelled"
Terminal == {COMPLETED, FAILED, CANCELLED}

\* str(e) of the exception a node raises
NodeError == "provider error"

VARIABLES
    db,           \* committed rows of table executions: [ExecIds -> option row]
    checkpoints,  \* checkpoint store: [ThreadIds -> option checkpoint]
    reqs,         \* requests and their sessions
    clock,        \* datetime.now(UTC)
    nextId,       \* next fresh primary key (uuid4)
    nextThread,   \* next fresh generated thread id (uuid4().hex[:12])
    served        \* requests accepted so far

vars == <<db, checkpoints, reqs, clock, nextId, nextThread, served>>

\* The other parts of the program, each with a specification of its own:
VARIABLES
    dispatch,     \* one dispatch of an edge group by its router function
    graph,        \* one run of one compiled workflow
    agent,        \* one invocation of an agent: its tool loop
    store,        \* the stored workflows and one compilation of one of them
    reduced,      \* one application of a reducer of WorkflowState
    tools,        \* one call of _execute_tool_calls
    sub           \* the checkpoint threads of the sub-graph runs

allvars == <<vars, dispatch, graph, agent, store, reduced, tools, sub>>

\* No edge group has been compiled.
NoDispatch ==
    [pc |-> "idle", kind |-> "none", declared |-> <<>>, edges |-> <<>>,
     config_default |-> <<>>,
     routes |-> <<>>, default_target |-> "__end__", i |-> 0, chosen |-> <<>>,
     error_message |-> <<>>]

\* No workflow has been compiled.
NoGraph ==
    [pc |-> "idle", workflow |-> [nodes |-> <<>>, edges |-> <<>>,
                                  input |-> [items |-> Null]],
     frontier |-> {}, writes |-> {}, sends |-> <<>>, dispatched |-> FALSE,
     state |-> [intermediate |-> {}, output |-> Null, current_node |-> Null],
     completed |-> <<>>, error |-> Null]

\* Steps of the execution lifecycle leave the other parts alone.
\* No agent has been invoked.
NoAgent ==
    [pc |-> "idle", kind |-> "none", messages |-> <<>>, response |-> Null,
     calls |-> 0, iteration |-> 0, output |-> Null]

\* No workflow is stored and the compiler is idle.
NoStore == [workflows |-> <<>>, pc |-> "idle", stack |-> <<>>, error |-> Null]

\* No reducer has been applied.
NoReduced == [pc |-> "idle", key |-> "none", left |-> Null, right |-> Null, value |-> Null]

\* No tool call has been executed.
NoTools ==
    [pc |-> "idle", tool_calls |-> <<>>, tool_messages |-> <<>>, invoked |-> {},
     outcomes |-> <<>>]

\* No sub-graph has run: no checkpoint thread of a sub-graph holds a state
\* and no parent execution has started.
MaxParents == 2      \* executions whose workflow has a sub-graph node
SubgraphNodeIds == {"n", "m"}
NoRun ==
    [pc |-> "idle", node_id |-> "none", thread_id |-> Null, state |-> {},
     sub_state |-> {}, output |-> Null]
NoSub ==
    [threads |-> [node_id \in SubgraphNodeIds |-> {}],
     runs |-> [e \in 1..MaxParents |-> NoRun]]

ExecutionsOnly == UNCHANGED <<dispatch, graph, agent, store, reduced, tools, sub>>

\* Execution(workflow_id, thread_id, status=PENDING, input_data)
Execution(thread_id, input) ==
    [thread_id |-> thread_id, status |-> PENDING, input_data |-> Some(input),
     output_data |-> Null, error_message |-> Null,
     started_at |-> Null, completed_at |-> Null, steps |-> <<>>]

\* ExecutionCreate(workflow_id, input, thread_id)
ExecutionCreate(input, thread_id) == [input |-> input, thread_id |-> thread_id]

\* Python's `x or {}` on an Optional[dict]
OrEmptyDict(x) == IF x = Null THEN {} ELSE IF x[1] = {} THEN {} ELSE x[1]

IdleRequest ==
    [op |-> "idle", pc |-> "idle", target |-> 0,
     data |-> ExecutionCreate({}, Null),
     execution |-> Null,      \* the row _get_execution returned
     id |-> 0, row |-> Null,  \* the row this session has flushed
     loaded |-> Null,         \* checkpoint found when the graph was invoked
     state |-> [output |-> Null], cursor |-> 0,
     invoked |-> <<>>,        \* nodes this run has invoked, in order
     events |-> <<>>,         \* event types the stream has yielded
     result |-> "none"]

Init ==
    /\ db = [e \in ExecIds |-> Null]
    /\ checkpoints = [t \in ThreadIds |-> Null]
    /\ reqs = [r \in ReqIds |-> IdleRequest]
    /\ clock = 1
    /\ nextId = 1
    /\ nextThread = 1
    /\ served = 0
    /\ dispatch = NoDispatch
    /\ graph = NoGraph
    /\ agent = NoAgent
    /\ store = NoStore
    /\ reduced = NoReduced
    /\ tools = NoTools
    /\ sub = NoSub

\* ------------------------------------------------------------- requests
\* A route accepts a request on the first free worker slot.
Accept(r) ==
    /\ served < MaxReq
    /\ reqs[r].op = "idle"
    /\ \A q \in ReqIds : q < r => reqs[q].op # "idle"
    /\ served' = served + 1

\* Ids a client can name: those an event or a response may have shown.
Issued == 1..(nextId - 1)

\* ------------------------------------------------------ the graph runtime
\* graph.ainvoke / graph.astream(input_state, config): the runtime continues
\* from the thread's checkpoint only when it is given no input; given an
\* input it folds the input into the saved channels and starts at the entry
\* node.
StartCursor(input_state, loaded) ==
    IF input_state = Null /\ loaded # Null THEN loaded[1].next ELSE 1

\* The channels after the input is folded in: input_state carries no
\* "output" key, so _take_last keeps what the checkpoint holds.
StartState(loaded) ==
    IF loaded = Null THEN [output |-> Null] ELSE loaded[1].values

\* The update an agent node returns, folded by _take_last.
FoldNode(state, node) == [state EXCEPT !.output = Some(node)]

Checkpoint(state, next) == [values |-> state, next |-> next]

\* ------------------------------------------------- writes to the ORM row
\* execute / execute_stream: "Mark as running"
MarkRunning(row, t) ==
    [row EXCEPT !.status = RUNNING, !.started_at = Some(t)]

\* execute: "Mark as completed"
MarkCompleted(row, t, output_data) ==
    [row EXCEPT !.status = COMPLETED, !.completed_at = Some(t),
                !.output_data = Some(output_data)]

\* Variant of MarkFailed that loses the error text.
MarkFailed_NoMessage(row, t, msg) ==
    [row EXCEPT !.status = FAILED, !.completed_at = Some(t)]

\* execute / execute_stream: "Mark as failed"
MarkFailed(row, t, msg) ==
    [row EXCEPT !.status = FAILED, !.completed_at = Some(t),
                !.error_message = Some(msg)]

\* Variant of CanCancel that lets a cancelled execution through again.
CanCancel_NotFinished(status) == status \in {PENDING, RUNNING, CANCELLED}

\* cancel: the guard and the write
CanCancel(status) == status \in {PENDING, RUNNING}

MarkCancelled(row, t) ==
    [row EXCEPT !.status = CANCELLED, !.completed_at = Some(t)]

\* Variant of CanResume that lets every terminal execution through.
CanResume_Terminal(status) == status \in {CANCELLED, FAILED, COMPLETED}

\* resume: the guard and the ExecutionCreate it re-executes
CanResume(status) == status \in {CANCELLED, FAILED}

\* Variant of ResumeData that forgets the input of the resumed execution.
ResumeData_NoInput(execution) ==
    ExecutionCreate({}, Some(execution.thread_id))

ResumeData(execution) ==
    ExecutionCreate(OrEmptyDict(execution.input_data), Some(execution.thread_id))

\* Variant of RestartData that keeps the thread of the original.
RestartData_SameThread(execution) ==
    ExecutionCreate(OrEmptyDict(execution.input_data), Some(execution.thread_id))

\* restart: the ExecutionCreate it executes
RestartData(execution) ==
    ExecutionCreate(OrEmptyDict(execution.input_data), Null)

\* ExecutionStep(node_id, status=COMPLETED, ...)
ExecutionStep(node) == [node_id |-> node, status |-> COMPLETED]

\* ----------------------------------------------------------- execute
\* execute, "Create execution record": thread_id from the request or fresh,
\* the row is added to the session and flushed as pending.
CreateExecution(q, op, data) ==
    LET thread_id == IF data.thread_id = Null THEN nextThread
                     ELSE data.thread_id[1]
    IN [q EXCEPT !.op = op,
                 !.data = data,
                 !.id = nextId,
                 !.row = Some(Execution(thread_id, data.input)),
                 !.pc = "run"]

\* POST /executions: execute(data) up to the flush of the pending row.
Execute(r, input) ==
    /\ Accept(r)
    /\ reqs' = [reqs EXCEPT ![r] =
                  CreateExecution(@, "execute", ExecutionCreate(input, Null))]
    /\ nextId' = nextId + 1
    /\ nextThread' = nextThread + 1
    /\ UNCHANGED <<db, checkpoints, clock>>

\* execute, "Mark as running" up to the call of graph.ainvoke: the runtime
\* loads the thread's checkpoint and writes the input checkpoint.
ExecuteRun(r) ==
    LET q == reqs[r]
        thread_id == q.row[1].thread_id
        loaded == checkpoints[thread_id]
        state == StartState(loaded)
        cursor == StartCursor(Some(q.data.input), loaded)
    IN /\ q.op \in {"execute", "resume", "restart"}
       /\ q.pc = "run"
       /\ reqs' = [reqs EXCEPT ![r] =
                     [q EXCEPT !.row = Some(MarkRunning(q.row[1], clock)),
                               !.loaded = loaded,
                               !.state = state,
                               !.cursor = cursor,
                               !.pc = "invoke"]]
       /\ checkpoints' = [checkpoints EXCEPT ![thread_id] =
                            Some(Checkpoint(state, cursor))]
       /\ clock' = clock + 1
       /\ UNCHANGED <<db, nextId, nextThread, served>>

\* One node of graph.ainvoke: it returns its update, which is folded and
\* checkpointed, or it raises.
ExecuteInvoke(r, raises) ==
    LET q == reqs[r]
        node == Nodes[q.cursor]
        state == FoldNode(q.state, node)
    IN /\ q.op \in {"execute", "resume", "restart"}
       /\ q.pc = "invoke"
       /\ q.cursor <= Len(Nodes)
       /\ IF raises
          THEN /\ reqs' = [reqs EXCEPT ![r] =
                             [q EXCEPT !.invoked = Append(@, node),
                                       !.pc = "except"]]
               /\ UNCHANGED checkpoints
          ELSE /\ reqs' = [reqs EXCEPT ![r] =
                             [q EXCEPT !.invoked = Append(@, node),
                                       !.state = state,
                                       !.cursor = @ + 1]]
               /\ checkpoints' = [checkpoints EXCEPT ![q.row[1].thread_id] =
                                    Some(Checkpoint(state, q.cursor + 1))]
       /\ UNCHANGED <<db, clock, nextId, nextThread, served>>

\* execute, "Mark as completed", then return self.get(execution.id).
ExecuteComplete(r) ==
    LET q == reqs[r]
    IN /\ q.op \in {"execute", "resume", "restart"}
       /\ q.pc = "invoke"
       /\ q.cursor > Len(Nodes)
       /\ reqs' = [reqs EXCEPT ![r] =
                     [q EXCEPT !.row = Some(MarkCompleted(q.row[1], clock,
                                              [output |-> q.state.output])),
                               !.result = "ok",
                               !.pc = "exit"]]
       /\ clock' = clock + 1
       /\ UNCHANGED <<db, checkpoints, nextId, nextThread, served>>

\* execute, "except Exception": mark as failed, flush, raise ExecutionError.
ExecuteFail(r) ==
    LET q == reqs[r]
    IN /\ q.op \in {"execute", "resume", "restart"}
       /\ q.pc = "except"
       /\ reqs' = [reqs EXCEPT ![r] =
                     [q EXCEPT !.row = Some(MarkFailed(q.row[1], clock, NodeError)),
                               !.result = "ExecutionError",
                               !.pc = "raise"]]
       /\ clock' = clock + 1
       /\ UNCHANGED <<db, checkpoints, nextId, nextThread, served>>

\* ------------------------------------------------------- execute_stream
\* POST /executions/stream: execute_stream(data) up to its first yield; the
\* row is flushed as pending and execution_started is emitted.
ExecuteStream(r, input) ==
    /\ Accept(r)
    /\ reqs' = [reqs EXCEPT ![r] =
                  [CreateExecution(@, "execute_stream", ExecutionCreate(input, Null))
                     EXCEPT !.events = Append(@, "execution_started")]]
    /\ nextId' = nextId + 1
    /\ nextThread' = nextThread + 1
    /\ UNCHANGED <<db, checkpoints, clock>>

\* execute_stream, "Mark as running" up to the call of graph.astream.
StreamRun(r) ==
    LET q == reqs[r]
        thread_id == q.row[1].thread_id
        loaded == checkpoints[thread_id]
        state == StartState(loaded)
        cursor == StartCursor(Some(q.data.input), loaded)
    IN /\ q.op = "execute_stream"
       /\ q.pc = "run"
       /\ reqs' = [reqs EXCEPT ![r] =
                     [q EXCEPT !.row = Some(MarkRunning(q.row[1], clock)),
                               !.loaded = loaded,
                               !.state = state,
                               !.cursor = cursor,
                               !.pc = "invoke"]]
       /\ checkpoints' = [checkpoints EXCEPT ![thread_id] =
                            Some(Checkpoint(state, cursor))]
       /\ clock' = clock + 1
       /\ UNCHANGED <<db, nextId, nextThread, served>>

\* One event of graph.astream: the node's update is folded and checkpointed,
\* node_complete is yielded and a completed ExecutionStep is added to the
\* session; or the node raises.
StreamInvoke(r, raises) ==
    LET q == reqs[r]
        node == Nodes[q.cursor]
        state == FoldNode(q.state, node)
    IN /\ q.op = "execute_stream"
       /\ q.pc = "invoke"
       /\ q.cursor <= Len(Nodes)
       /\ IF raises
          THEN /\ reqs' = [reqs EXCEPT ![r] =
                             [q EXCEPT !.invoked = Append(@, node),
                                       !.pc = "except"]]
               /\ UNCHANGED checkpoints
          ELSE /\ reqs' = [reqs EXCEPT ![r] =
                             [q EXCEPT !.invoked = Append(@, node),
                                       !.state = state,
                                       !.cursor = @ + 1,
                                       !.events = Append(@, "node_complete"),
                                       !.row = Some([q.row[1] EXCEPT !.steps =
                                                 Append(@, ExecutionStep(node))])]]
               /\ checkpoints' = [checkpoints EXCEPT ![q.row[1].thread_id] =
                                    Some(Checkpoint(state, q.cursor + 1))]
       /\ UNCHANGED <<db, clock, nextId, nextThread, served>>

\* execute_stream, "Mark as completed" and the yield of execution_complete;
\* the generator ends and the response is complete.
StreamComplete(r) ==
    LET q == reqs[r]
    IN /\ q.op = "execute_stream"
       /\ q.pc = "invoke"
       /\ q.cursor > Len(Nodes)
       /\ reqs' = [reqs EXCEPT ![r] =
                     [q EXCEPT !.row = Some(MarkCompleted(q.row[1], clock,
                                              [output |-> q.state.output])),
                               !.events = Append(@, "execution_complete"),
                               !.result = "ok",
                               !.pc = "exit"]]
       /\ clock' = clock + 1
       /\ UNCHANGED <<db, checkpoints, nextId, nextThread, served>>

\* Variant of StreamFail that marks the row failed and ends without an event.
StreamFail_Silent(r) ==
    LET q == reqs[r]
    IN /\ q.op = "execute_stream"
       /\ q.pc = "except"
       /\ reqs' = [reqs EXCEPT ![r] =
                     [q EXCEPT !.row = Some(MarkFailed(q.row[1], clock, NodeError)),
                               !.result = "ok",
                               !.pc = "exit"]]
       /\ clock' = clock + 1
       /\ UNCHANGED <<db, checkpoints, nextId, nextThread, served>>

\* execute_stream, "except Exception": mark as failed and yield error; the
\* exception is not re-raised, so the generator ends normally.
StreamFail(r) ==
    LET q == reqs[r]
    IN /\ q.op = "execute_stream"
       /\ q.pc = "except"
       /\ reqs' = [reqs EXCEPT ![r] =
                     [q EXCEPT !.row = Some(MarkFailed(q.row[1], clock, NodeError)),
                               !.events = Append(@, "error"),
                               !.result = "ok",
                               !.pc = "exit"]]
       /\ clock' = clock + 1
       /\ UNCHANGED <<db, checkpoints, nextId, nextThread, served>>

\* The SSE client goes away while event_generator is suspended (at a yield or
\* inside graph.astream): the generator is abandoned where it stands, the
\* response ends without an exception and get_db_session goes on to commit.
StreamDisconnect(r) ==
    LET q == reqs[r]
    IN /\ q.op = "execute_stream"
       /\ q.pc \in {"run", "invoke"}
       /\ reqs' = [reqs EXCEPT ![r] = [q EXCEPT !.result = "disconnected",
                                                !.pc = "exit"]]
       /\ UNCHANGED <<db, checkpoints, clock, nextId, nextThread, served>>

\* ------------------------------------------------ cancel, resume, restart
\* _get_execution: the session sees committed rows only.
GetExecution(execution_id) == db[execution_id]

\* POST /executions/{id}/cancel: cancel(execution_id)
Cancel(r, execution_id) ==
    LET q == [reqs[r] EXCEPT !.op = "cancel", !.target = execution_id]
        execution == GetExecution(execution_id)
        accepted == execution # Null /\ CanCancel(execution[1].status)
    IN /\ Accept(r)
       /\ IF execution = Null
          THEN reqs' = [reqs EXCEPT ![r] =
                          [q EXCEPT !.result = "ExecutionNotFoundError",
                                    !.pc = "raise"]]
          ELSE IF ~CanCancel(execution[1].status)
          THEN reqs' = [reqs EXCEPT ![r] =
                          [q EXCEPT !.execution = execution,
                                    !.result = "ExecutionError",
                                    !.pc = "raise"]]
          ELSE reqs' = [reqs EXCEPT ![r] =
                          [q EXCEPT !.execution = execution,
                                    !.id = execution_id,
                                    !.row = Some(MarkCancelled(execution[1], clock)),
                                    !.result = "ok",
                                    !.pc = "exit"]]
       /\ clock' = IF accepted THEN clock + 1 ELSE clock
       /\ UNCHANGED <<db, checkpoints, nextId, nextThread>>

\* POST /executions/{id}/resume: resume(execution_id) and, when the guard
\* lets it through, execute(data) up to the flush of the pending row.
Resume(r, execution_id) ==
    LET q == [reqs[r] EXCEPT !.op = "resume", !.target = execution_id]
        execution == GetExecution(execution_id)
        accepted == execution # Null /\ CanResume(execution[1].status)
    IN /\ Accept(r)
       /\ IF execution = Null
          THEN reqs' = [reqs EXCEPT ![r] =
                          [q EXCEPT !.result = "ExecutionNotFoundError",
                                    !.pc = "raise"]]
          ELSE IF ~CanResume(execution[1].status)
          THEN reqs' = [reqs EXCEPT ![r] =
                          [q EXCEPT !.execution = execution,
                                    !.result = "ExecutionError",
                                    !.pc = "raise"]]
          ELSE reqs' = [reqs EXCEPT ![r] =
                          CreateExecution([q EXCEPT !.execution = execution],
                                          "resume", ResumeData(execution[1]))]
       /\ nextId' = IF accepted THEN nextId + 1 ELSE nextId
       /\ UNCHANGED <<db, checkpoints, clock, nextThread>>

\* POST /executions/{id}/restart: restart(execution_id) and execute(data) up
\* to the flush of the pending row.
Restart(r, execution_id) ==
    LET q == [reqs[r] EXCEPT !.op = "restart", !.target = execution_id]
        execution == GetExecution(execution_id)
    IN /\ Accept(r)
       /\ IF execution = Null
          THEN /\ reqs' = [reqs EXCEPT ![r] =
                             [q EXCEPT !.result = "ExecutionNotFoundError",
                                       !.pc = "raise"]]
               /\ UNCHANGED <<nextId, nextThread>>
          ELSE /\ reqs' = [reqs EXCEPT ![r] =
                             CreateExecution([q EXCEPT !.execution = execution],
                                             "restart", RestartData(execution[1]))]
               /\ nextId' = nextId + 1
               /\ nextThread' = nextThread + 1
       /\ UNCHANGED <<db, checkpoints, clock>>

\* --------------------------------------------------------- get_db_session
\* The route returned: session.commit() makes the flushed row visible and the
\* request is over.
Commit(r) ==
    LET q == reqs[r]
    IN /\ q.pc = "exit"
       /\ db' = IF q.id = 0 THEN db ELSE [db EXCEPT ![q.id] = q.row]
       /\ reqs' = [reqs EXCEPT ![r] = IdleRequest]
       /\ UNCHANGED <<checkpoints, clock, nextId, nextThread, served>>

\* The route raised: session.rollback() drops what the session flushed and
\* the request is over.
Rollback(r) ==
    LET q == reqs[r]
    IN /\ q.pc = "raise"
       /\ reqs' = [reqs EXCEPT ![r] = IdleRequest]
       /\ UNCHANGED <<db, checkpoints, clock, nextId, nextThread, served>>

Next ==
    \/ \E r \in ReqIds, input \in Inputs : Execute(r, input) /\ ExecutionsOnly
    \/ \E r \in ReqIds : ExecuteRun(r) /\ ExecutionsOnly
    \/ \E r \in ReqIds, raises \in BOOLEAN : ExecuteInvoke(r, raises) /\ ExecutionsOnly
    \/ \E r \in ReqIds : ExecuteComplete(r) /\ ExecutionsOnly
    \/ \E r \in ReqIds : ExecuteFail(r) /\ ExecutionsOnly
    \/ \E r \in ReqIds, input \in Inputs : ExecuteStream(r, input) /\ ExecutionsOnly
    \/ \E r \in ReqIds : StreamRun(r) /\ ExecutionsOnly
    \/ \E r \in ReqIds, raises \in BOOLEAN : StreamInvoke(r, raises) /\ ExecutionsOnly
    \/ \E r \in ReqIds : StreamComplete(r) /\ ExecutionsOnly
    \/ \E r \in ReqIds : StreamFail(r) /\ ExecutionsOnly
    \/ \E r \in ReqIds : StreamDisconnect(r) /\ ExecutionsOnly
    \/ \E r \in ReqIds, e \in Issued : Cancel(r, e) /\ ExecutionsOnly
    \/ \E r \in ReqIds, e \in Issued : Resume(r, e) /\ ExecutionsOnly
    \/ \E r \in ReqIds, e \in Issued : Restart(r, e) /\ ExecutionsOnly
    \/ \E r \in ReqIds : Commit(r) /\ ExecutionsOnly
    \/ \E r \in ReqIds : Rollback(r) /\ ExecutionsOnly

Spec == Init /\ [][Next]_allvars

\* ============================================================ edge routing
\* One edge group (the edges leaving one source node) is compiled into a
\* router function, and the function dispatches once.
MaxRoutes == 2       \* routes of a router_config, edges of an edge group

\* Condition expressions and what eval() makes of them: "True" is truthy,
\* "False" is falsy, "1/0" raises ZeroDivisionError and "" raises SyntaxError.
Conditions == {"True", "False", "1/0", ""}
Eval(condition) ==
    CASE condition = "True" -> "truthy"
      [] condition = "False" -> "falsy"
      [] OTHER -> "raises"

RouteTargets == {"X", "Y"}
EdgeTargets == {"X", "Y", "__end__"}

\* router_config["routes"]: dicts with "condition" and "target".
Routes == [condition : Conditions, target : RouteTargets]
\* WorkflowEdge rows of one source node: condition is None or a string.
Edges == [condition : {Null} \cup {Some(c) : c \in Conditions},
          target_node : EdgeTargets]

SeqsUpTo(S, n) == UNION {[1..k -> S] : k \in 0..n}

\* The orders in which a SELECT without ORDER BY may return the rows that
\* were inserted in the order `rows`: Workflow.edges has no order_by and
\* WorkflowEdge has no position column.
Orders(rows) ==
    {[i \in 1..Len(rows) |-> rows[p[i]]] :
        p \in {q \in [1..Len(rows) -> 1..Len(rows)] :
                 \A a, b \in 1..Len(rows) : q[a] = q[b] => a = b}}

\* Python's truth value of edge.condition: None and "" are falsy.
HasCondition(edge) == edge.condition # Null /\ edge.condition[1] # ""

\* _add_conditional_edges, "Build conditional routing from edge conditions":
\* the conditional edges in the order of the list, and the target of the
\* last condition-less edge (else END) as the default.
RECURSIVE EdgeConditions(_)
EdgeConditions(edges) ==
    IF edges = <<>> THEN <<>>
    ELSE LET edge == Head(edges)
         IN IF HasCondition(edge)
            THEN <<[condition |-> edge.condition[1], target |-> edge.target_node]>>
                 \o EdgeConditions(Tail(edges))
            ELSE EdgeConditions(Tail(edges))

\* The target of the first condition-less edge instead of the last.
RECURSIVE EdgeDefault_First(_, _)
EdgeDefault_First(edges, default_target) ==
    IF edges = <<>> THEN default_target
    ELSE IF HasCondition(Head(edges))
         THEN EdgeDefault_First(Tail(edges), default_target)
         ELSE Head(edges).target_node

RECURSIVE EdgeDefault(_, _)
EdgeDefault(edges, default_target) ==
    IF edges = <<>> THEN default_target
    ELSE EdgeDefault(Tail(edges),
                     IF HasCondition(Head(edges)) THEN default_target
                     ELSE Head(edges).target_node)

\* create_router_node: default_target = router_config.get("default", "__end__")
ConfigDefault(default) == IF default = Null THEN "__end__" ELSE default[1]

\* _add_edges hands a group to _add_conditional_edges when an edge has a
\* condition or the source has several edges; for a router node with a
\* router_config the group is then built from the config, whatever the edges.
AddRouterConfig(routes, default, edges) ==
    /\ dispatch.pc = "idle"
    /\ Len(edges) > 1 \/ \E k \in 1..Len(edges) : HasCondition(edges[k])
    /\ dispatch' = [dispatch EXCEPT !.pc = "eval",
                                    !.kind = "router_config",
                                    !.declared = routes,
                                    !.edges = edges,
                                    !.config_default = default,
                                    !.routes = routes,
                                    !.default_target = ConfigDefault(default),
                                    !.i = 1]

\* _add_edges / _add_conditional_edges for the edges of one source, as they
\* were declared and as the database returned them: a single condition-less
\* edge and a group without conditions become one direct edge, a group with
\* conditions becomes a router.
AddEdges(declared, edges) ==
    LET conditions == EdgeConditions(edges)
        default_target == EdgeDefault(edges, "__end__")
    IN /\ dispatch.pc = "idle"
       /\ edges \in Orders(declared)
       /\ IF conditions # <<>>
          THEN dispatch' = [dispatch EXCEPT !.pc = "eval",
                                            !.kind = "edges",
                                            !.declared = declared,
                                            !.edges = edges,
                                            !.routes = conditions,
                                            !.default_target = default_target,
                                            !.i = 1]
          ELSE dispatch' = [dispatch EXCEPT !.pc = "done",
                                            !.kind = "direct",
                                            !.declared = declared,
                                            !.edges = edges,
                                            !.default_target = default_target,
                                            !.chosen = Some(default_target)]

\* router, one turn of `for route in routes`: a truthy result returns the
\* route's target; a falsy result and an exception go on to the next route.
RouterEval ==
    LET route == dispatch.routes[dispatch.i]
    IN /\ dispatch.pc = "eval"
       /\ dispatch.i <= Len(dispatch.routes)
       /\ dispatch' =
            IF Eval(route.condition) = "truthy"
            THEN [dispatch EXCEPT !.pc = "done", !.chosen = Some(route.target)]
            ELSE [dispatch EXCEPT !.i = @ + 1]

\* router, after the loop: return default_target.
RouterDefault ==
    /\ dispatch.pc = "eval"
    /\ dispatch.i > Len(dispatch.routes)
    /\ dispatch' = [dispatch EXCEPT !.pc = "done",
                                    !.chosen = Some(dispatch.default_target)]

RoutingOnly == UNCHANGED <<vars, graph, agent, store, reduced, tools, sub>>

NextRouting ==
    \/ \E routes \in SeqsUpTo(Routes, MaxRoutes),
          default \in {Null} \cup {Some(t) : t \in EdgeTargets},
          edges \in SeqsUpTo([condition : {Null, Some("True")},
                               target_node : RouteTargets], MaxRoutes) :
            AddRouterConfig(routes, default, edges) /\ RoutingOnly
    \/ \E declared \in SeqsUpTo(Edges, MaxRoutes) \ {<<>>} :
          \E edges \in Orders(declared) :
            AddEdges(declared, edges) /\ RoutingOnly
    \/ RouterEval /\ RoutingOnly
    \/ RouterDefault /\ RoutingOnly

SpecRouting == Init /\ [][NextRouting]_allvars

\* ========================================================= compiled graphs
\* A workflow is compiled into a graph and run once on a fresh thread.  The
\* graph runtime works in supersteps: the nodes of the frontier run against
\* the same snapshot of the state, their updates are folded by the reducers
\* of WorkflowState, and the edges of the nodes that ran give the next
\* frontier.
MaxChain == 3        \* nodes of a chain workflow
MaxSiblings == 2     \* parallel_nodes of a parallel node
MaxItems == 2        \* items of the fan_out_key list

\* NodeType
AGENT == "agent"
ROUTER == "router"
PARALLEL == "parallel"
JOIN == "join"
SUBGRAPH == "subgraph"

\* WorkflowNode: node_id, node_type, the name of the agent of an AGENT node,
\* parallel_nodes and config["fan_out_key"] of a PARALLEL node.
WorkflowNode(node_id, node_type, agent_name, parallel_nodes, fan_out_key) ==
    [node_id |-> node_id, node_type |-> node_type, agent_name |-> agent_name,
     parallel_nodes |-> parallel_nodes, fan_out_key |-> fan_out_key]

\* WorkflowEdge without a condition
WorkflowEdge(source_node, target_node) ==
    [source_node |-> source_node, target_node |-> target_node]

\* node_id strings: n1, n2, ..., s1, s2, ...
NodeId(prefix, k) == prefix \o ToString(k)

\* Agent.name is a column of the agent, chosen apart from the node_id of the
\* nodes that use the agent; it may or may not be the same string.
AgentName(node_id, same) == IF same THEN node_id ELSE "agent of " \o node_id

\* __start__ -> n1 -> ... -> nk -> __end__ with nodes of the given types.
Chain(types, same) ==
    [nodes |-> [k \in 1..Len(types) |->
                  WorkflowNode(NodeId("n", k), types[k],
                               IF types[k] = AGENT
                               THEN AgentName(NodeId("n", k), same) ELSE "",
                               <<>>, Null)],
     edges |-> [k \in 1..(Len(types) + 1) |->
                  WorkflowEdge(IF k = 1 THEN "__start__" ELSE NodeId("n", k - 1),
                               IF k > Len(types) THEN "__end__" ELSE NodeId("n", k))],
     input |-> [items |-> Null]]

\* __start__ -> p, p fans out to s1..sn, every sibling -> j, j -> __end__;
\* with a fan_out_key the input carries the list to fan out over.
FanOut(n, fan_out_key, items, same) ==
    [nodes |-> <<WorkflowNode("p", PARALLEL, "",
                              [i \in 1..n |-> NodeId("s", i)], fan_out_key)>>
               \o [i \in 1..n |->
                     WorkflowNode(NodeId("s", i), AGENT,
                                  AgentName(NodeId("s", i), same), <<>>, Null)]
               \o <<WorkflowNode("j", JOIN, "", <<>>, Null)>>,
     edges |-> <<WorkflowEdge("__start__", "p")>>
               \o [i \in 1..n |-> WorkflowEdge(NodeId("s", i), "j")]
               \o <<WorkflowEdge("j", "__end__")>>,
     input |-> [items |-> items]]

ChainTypes == {AGENT, ROUTER, JOIN, SUBGRAPH}
ItemLists == UNION {[1..k -> {"item"}] : k \in 0..MaxItems}

Workflows ==
    {Chain(types, same) :
        types \in UNION {[1..k -> ChainTypes] : k \in 1..MaxChain},
        same \in BOOLEAN}
    \cup {FanOut(n, Null, Null, same) : n \in 1..MaxSiblings, same \in BOOLEAN}
    \cup {FanOut(n, Some("items"), items, same) :
            n \in 1..MaxSiblings,
            items \in {Null} \cup {Some(l) : l \in ItemLists},
            same \in BOOLEAN}

\* nodes_map[node_id]
NodeOf(workflow, node_id) ==
    workflow.nodes[CHOOSE k \in 1..Len(workflow.nodes) :
                     workflow.nodes[k].node_id = node_id]

\* _add_edges: the edges of one source; a single edge without a condition is
\* added as it is, and of several edges without conditions only the last is
\* added (default_target).
EdgesFrom(workflow, source) ==
    {k \in 1..Len(workflow.edges) : workflow.edges[k].source_node = source}

CompiledTargets(workflow, source) ==
    IF EdgesFrom(workflow, source) = {} THEN {}
    ELSE {workflow.edges[CHOOSE k \in EdgesFrom(workflow, source) :
             \A n \in EdgesFrom(workflow, source) : n <= k].target_node}

\* parallel_dispatcher: one Send per target, or with a fan_out_key one Send
\* per item of the list and target; the key is looked up in the state and
\* then in state["input"], and anything but a list gives no Send.  The
\* payload of a Send is a dict object: without a fan_out_key it is the state
\* object itself, with one it is {**state, ...}, a new dict whose values are
\* the objects of the state, the intermediate dict among them.  `state` and
\* `intermediate` name the objects.
ParallelDispatcher(node, input) ==
    IF node.fan_out_key # Null
    THEN IF input.items = Null THEN <<>>
         ELSE [k \in 1..(Len(input.items[1]) * Len(node.parallel_nodes)) |->
                 [node |-> node.parallel_nodes[((k - 1) % Len(node.parallel_nodes)) + 1],
                  parallel_index |-> Some((k - 1) \div Len(node.parallel_nodes)),
                  state |-> "item_state " \o ToString(k),
                  intermediate |-> "state.intermediate"]]
    ELSE [k \in 1..Len(node.parallel_nodes) |->
            [node |-> node.parallel_nodes[k], parallel_index |-> Null,
             state |-> "state", intermediate |-> "state.intermediate"]]

\* _build_state_updates: the agent's output is stored under the agent's name.
AgentNode(node, state) ==
    [current_node |-> Some(node.agent_name),
     intermediate |-> state.intermediate \cup {node.agent_name},
     output |-> Some(node.agent_name)]

\* _create_passthrough_node: {"current_node": node_id}
Passthrough(node, state) ==
    [current_node |-> Some(node.node_id), intermediate |-> {}, output |-> Null]

\* join_aggregator: {output_key: aggregated, "output": aggregated}; output_key
\* is no channel of WorkflowState.
JoinAggregator(node, state) ==
    [current_node |-> Null, intermediate |-> {},
     output |-> Some(<<"aggregated", state.intermediate>>)]

\* subgraph_executor: the output of the sub-run is stored under node_id.
SubgraphExecutor(node, state) ==
    [current_node |-> Some(node.node_id),
     intermediate |-> state.intermediate \cup {node.node_id},
     output |-> Some(node.node_id)]

\* _create_node_function: the function of a node that returns a state update.
NodeFunction(node, state) ==
    CASE node.node_type = AGENT -> AgentNode(node, state)
      [] node.node_type = ROUTER -> Passthrough(node, state)
      [] node.node_type = JOIN -> JoinAggregator(node, state)
      [] node.node_type = SUBGRAPH -> SubgraphExecutor(node, state)

\* The reducers of WorkflowState: _merge_dicts for intermediate, _take_last
\* for output and current_node.
\* The update always wins, None included.
TakeLast_Always(left, right) == right

TakeLast(left, right) == IF right # Null THEN right ELSE left

Fold(state, update) ==
    [intermediate |-> state.intermediate \cup update.intermediate,
     output |-> TakeLast(state.output, update.output),
     current_node |-> TakeLast(state.current_node, update.current_node)]

RECURSIVE FoldAll(_, _)
FoldAll(state, writes) ==
    IF writes = {} THEN state
    ELSE LET w == CHOOSE x \in writes : TRUE
         IN FoldAll(Fold(state, w.update), writes \ {w})

\* compile, then graph.ainvoke(input_state, config) on a fresh thread: the
\* first frontier is the target of the edge from __start__.
CompileAndStart(workflow) ==
    /\ graph.pc = "idle"
    /\ graph' = [graph EXCEPT
                   !.pc = "running",
                   !.workflow = workflow,
                   !.frontier = CompiledTargets(workflow, "__start__") \ {"__end__"},
                   !.completed = [k \in 1..Len(workflow.nodes) |-> 0]]

NodeIndex(workflow, node_id) ==
    CHOOSE k \in 1..Len(workflow.nodes) : workflow.nodes[k].node_id = node_id

\* A node of the frontier returns its update.
RunNode(node_id) ==
    LET node == NodeOf(graph.workflow, node_id)
    IN /\ graph.pc = "running"
       /\ node_id \in graph.frontier
       /\ node.node_type # PARALLEL
       /\ graph' = [graph EXCEPT
                      !.frontier = @ \ {node_id},
                      !.writes = @ \cup {[node |-> node_id,
                                          update |-> NodeFunction(node, graph.state)]}]

\* The provider of an agent node raises, or the run of a sub-graph fails: the
\* exception leaves graph.ainvoke and the run is over.
NodeRaises(node_id) ==
    LET node == NodeOf(graph.workflow, node_id)
    IN /\ graph.pc = "running"
       /\ node_id \in graph.frontier
       /\ node.node_type \in {AGENT, SUBGRAPH}
       /\ graph' = [graph EXCEPT !.pc = "failed", !.error = Some(NodeError)]

\* The graph runtime takes the list of Send and schedules the siblings.
ParallelNodeReturns_Dispatches(node_id) ==
    LET node == NodeOf(graph.workflow, node_id)
    IN /\ graph.pc = "running"
       /\ node_id \in graph.frontier
       /\ node.node_type = PARALLEL
       /\ graph' = [graph EXCEPT
                      !.sends = ParallelDispatcher(node, graph.workflow.input),
                      !.dispatched = TRUE,
                      !.frontier = {node.parallel_nodes[k] : k \in 1..Len(node.parallel_nodes)}]

\* A parallel node runs: _create_node_function registers parallel_dispatcher
\* as the function of the node, and it returns its list of Send.  The graph
\* runtime takes Send only from the path function of a conditional edge; what
\* a node returns must be a state update, and a list is refused with
\* InvalidUpdateError ("Expected dict, got [...]"), which ends the run.
ParallelNodeReturns(node_id) ==
    LET node == NodeOf(graph.workflow, node_id)
    IN /\ graph.pc = "running"
       /\ node_id \in graph.frontier
       /\ node.node_type = PARALLEL
       /\ graph' = [graph EXCEPT
                      !.sends = ParallelDispatcher(node, graph.workflow.input),
                      !.dispatched = TRUE,
                      !.pc = "failed",
                      !.error = Some("InvalidUpdateError")]

\* The superstep ends: the updates are folded into the state, the nodes that
\* ran have completed, and their edges give the next frontier; the run is
\* complete when nothing is left to run.
EndSuperstep ==
    LET ran == {w.node : w \in graph.writes}
        next == UNION {CompiledTargets(graph.workflow, n) : n \in ran} \ {"__end__"}
    IN /\ graph.pc = "running"
       /\ graph.frontier = {}
       /\ graph.writes # {}
       /\ graph' = [graph EXCEPT
                      !.state = FoldAll(graph.state, graph.writes),
                      !.completed = [k \in 1..Len(graph.workflow.nodes) |->
                                       IF graph.workflow.nodes[k].node_id \in ran
                                       THEN @[k] + 1 ELSE @[k]],
                      !.writes = {},
                      !.frontier = next,
                      !.pc = IF next = {} THEN "completed" ELSE "running"]

GraphOnly == UNCHANGED <<vars, dispatch, agent, store, reduced, tools, sub>>

NodeIds == {NodeId("n", k) : k \in 1..MaxChain}
           \cup {NodeId("s", i) : i \in 1..MaxSiblings} \cup {"p", "j"}

NextGraph ==
    \/ \E workflow \in Workflows : CompileAndStart(workflow) /\ GraphOnly
    \/ \E node_id \in NodeIds : RunNode(node_id) /\ GraphOnly
    \/ \E node_id \in NodeIds : NodeRaises(node_id) /\ GraphOnly
    \/ \E node_id \in NodeIds : ParallelNodeReturns(node_id) /\ GraphOnly
    \/ EndSuperstep /\ GraphOnly

SpecGraph == Init /\ [][NextGraph]_allvars

\* ============================================================= agent loop
\* One invocation of an agent: by the agent node of a workflow (agent_node,
\* _run_tool_loop) or by AgentExecutor.execute.  The provider answers each
\* call with a final response or with a response that requests tool calls.
MAX_TOOL_ITERATIONS == 10
MaxToolCalls == 2    \* tool calls requested by one response

Sentinel == "Max tool iterations reached"

\* The k-th response of the provider: content and the number of tool calls.
Response(k, tool_calls) ==
    [content |-> "content of response " \o ToString(k), tool_calls |-> tool_calls]

\* messages.append(response); messages.extend(tool_messages): the assistant
\* turn and one tool turn per tool call.  A tool that raises or is not found
\* gives a tool turn with the error text.
ToolTurns(response) ==
    <<"assistant">> \o [k \in 1..response.tool_calls |-> "tool"]

\* agent_node: the system turn if there are instructions, then the context.
AgentNodeStart(has_instructions) ==
    /\ agent.pc = "idle"
    /\ agent' = [agent EXCEPT
                   !.pc = "call", !.kind = "node",
                   !.messages = IF has_instructions THEN <<"system", "user">>
                                ELSE <<"user">>]

\* AgentExecutor.execute: system turn, the context turn if any, user turn.
ExecutorStart(has_context) ==
    /\ agent.pc = "idle"
    /\ agent' = [agent EXCEPT
                   !.pc = "call", !.kind = "executor",
                   !.messages = IF has_context THEN <<"system", "user", "user">>
                                ELSE <<"system", "user">>]

\* _run_tool_loop: response = await model.ainvoke(messages), before the loop
\* and at the end of every round of the loop.
ModelInvoke(tool_calls) ==
    /\ agent.pc = "call"
    /\ agent.kind = "node"
    /\ agent' = [agent EXCEPT
                   !.pc = "answered",
                   !.calls = @ + 1,
                   !.response = Some(Response(agent.calls + 1, tool_calls))]

\* AgentExecutor.execute: while iteration < MAX_TOOL_ITERATIONS:
\* response = await provider.complete(...)
ExecutorComplete(tool_calls) ==
    /\ agent.pc = "call"
    /\ agent.kind = "executor"
    /\ agent.iteration < MAX_TOOL_ITERATIONS
    /\ agent' = [agent EXCEPT
                   !.pc = "answered",
                   !.calls = @ + 1,
                   !.response = Some(Response(agent.calls + 1, tool_calls))]

\* The provider raises: the exception leaves the invocation.
ProviderRaises ==
    /\ agent.pc = "call"
    /\ agent.kind = "executor" => agent.iteration < MAX_TOOL_ITERATIONS
    /\ agent' = [agent EXCEPT !.pc = "failed", !.calls = @ + 1]

\* _run_tool_loop: one round of for _ in range(MAX_TOOL_ITERATIONS) with a
\* response that requests tools: the tools run, then the model is called.
RunToolLoopRound ==
    /\ agent.pc = "answered"
    /\ agent.kind = "node"
    /\ agent.iteration < MAX_TOOL_ITERATIONS
    /\ agent.response[1].tool_calls > 0
    /\ agent' = [agent EXCEPT
                   !.pc = "call",
                   !.messages = @ \o ToolTurns(agent.response[1]),
                   !.iteration = @ + 1]

\* _run_tool_loop returns the last response when it requests no tool or
\* when the range is used up; _extract_output takes its content and
\* _build_state_updates makes it the output.
RunToolLoopReturn ==
    /\ agent.pc = "answered"
    /\ agent.kind = "node"
    /\ \/ agent.iteration = MAX_TOOL_ITERATIONS
       \/ agent.response[1].tool_calls = 0
    /\ agent' = [agent EXCEPT
                   !.pc = "done",
                   !.output = Some(agent.response[1].content)]

\* AgentExecutor.execute: the response requests tools: the assistant turn and
\* the tool turns are appended, iteration += 1.
ExecutorRound ==
    /\ agent.pc = "answered"
    /\ agent.kind = "executor"
    /\ agent.response[1].tool_calls > 0
    /\ agent' = [agent EXCEPT
                   !.pc = "call",
                   !.messages = @ \o ToolTurns(agent.response[1]),
                   !.iteration = @ + 1]

\* AgentExecutor.execute: if not response.tool_calls: return the content.
ExecutorReturn ==
    /\ agent.pc = "answered"
    /\ agent.kind = "executor"
    /\ agent.response[1].tool_calls = 0
    /\ agent' = [agent EXCEPT
                   !.pc = "done",
                   !.output = Some(agent.response[1].content)]

\* AgentExecutor.execute: the while loop is left with iteration at the limit.
ExecutorMaxIterations ==
    /\ agent.pc = "call"
    /\ agent.kind = "executor"
    /\ agent.iteration >= MAX_TOOL_ITERATIONS
    /\ agent' = [agent EXCEPT !.pc = "done", !.output = Some(Sentinel)]

AgentOnly == UNCHANGED <<vars, dispatch, graph, store, reduced, tools, sub>>

NextAgent ==
    \/ \E has_instructions \in BOOLEAN : AgentNodeStart(has_instructions) /\ AgentOnly
    \/ \E has_context \in BOOLEAN : ExecutorStart(has_context) /\ AgentOnly
    \/ \E tool_calls \in 0..MaxToolCalls : ModelInvoke(tool_calls) /\ AgentOnly
    \/ \E tool_calls \in 0..MaxToolCalls : ExecutorComplete(tool_calls) /\ AgentOnly
    \/ ProviderRaises /\ AgentOnly
    \/ RunToolLoopRound /\ AgentOnly
    \/ RunToolLoopReturn /\ AgentOnly
    \/ ExecutorRound /\ AgentOnly
    \/ ExecutorReturn /\ AgentOnly
    \/ ExecutorMaxIterations /\ AgentOnly

SpecAgent == Init /\ [][NextAgent]_allvars

\* ========================================================= workflow store
\* WorkflowService on the tables of workflows, nodes and edges, one operation
\* at a time, and WorkflowCompiler.compile on what is stored.  store.workflows
\* is the sequence of the stored workflows (the position stands for the id);
\* the rows of nodes and of edges of a workflow are addressed by position.
MaxWorkflows == 2    \* stored workflows
MaxNodes == 2        \* node rows of one workflow
MaxEdges == 1        \* edge rows of one workflow
MaxDepth == 3        \* nested compile calls the interpreter allows

\* WorkflowNodeCreate: node_id and subgraph_workflow_id (set for a node of
\* type SUBGRAPH); WorkflowEdgeCreate: source_node and target_node.
NodeRows == [node_id : {"a", "b"}, subgraph_workflow_id : {Null} \cup {Some(w) : w \in 1..MaxWorkflows}]
EdgeRows == {WorkflowEdge("__start__", "a"), WorkflowEdge("a", "b")}

\* _validate_workflow on a WorkflowCreate (nodes and edges of min_length 1):
\* no duplicate node_id, and every edge from __start__ or a node_id to
\* __end__ or a node_id.  TRUE when no ValidationError is raised.
ValidateWorkflow(nodes, edges) ==
    LET node_ids == {nodes[k].node_id : k \in 1..Len(nodes)}
    IN /\ Len(nodes) >= 1
       /\ Len(edges) >= 1
       /\ Cardinality(node_ids) = Len(nodes)
       /\ \A k \in 1..Len(edges) :
            /\ edges[k].source_node \in {"__start__"} \cup node_ids
            /\ edges[k].target_node \in {"__end__"} \cup node_ids

\* ForeignKey("workflows.id") of subgraph_workflow_id: the rows can be
\* flushed when every reference is to a stored workflow.
ForeignKeysHold(nodes) ==
    \A k \in 1..Len(nodes) :
        nodes[k].subgraph_workflow_id # Null
            => nodes[k].subgraph_workflow_id[1] \in 1..Len(store.workflows)

\* data.nodes or [existing rows]: None and the empty list give the rows
\* that are stored.
OrExisting(data, existing) ==
    IF data # Null /\ data[1] # <<>> THEN data[1] ELSE existing

\* The sequence without its k-th element.
Remove(seq, k) == [i \in 1..(Len(seq) - 1) |-> IF i < k THEN seq[i] ELSE seq[i + 1]]

\* create: validate, then store the workflow with its nodes and edges.
Create(nodes, edges) ==
    /\ store.pc = "idle"
    /\ Len(store.workflows) < MaxWorkflows
    /\ ValidateWorkflow(nodes, edges)
    /\ ForeignKeysHold(nodes)
    /\ store' = [store EXCEPT !.workflows = Append(@, [nodes |-> nodes, edges |-> edges])]

\* update: when nodes or edges are given, validate (data.nodes or the stored
\* nodes, data.edges or the stored edges), then replace the nodes if
\* data.nodes is not None and the edges if data.edges is not None.
Update(w, nodes, edges) ==
    /\ store.pc = "idle"
    /\ w \in 1..Len(store.workflows)
    /\ nodes # Null \/ edges # Null
    /\ ValidateWorkflow(OrExisting(nodes, store.workflows[w].nodes),
                        OrExisting(edges, store.workflows[w].edges))
    /\ nodes # Null => ForeignKeysHold(nodes[1])
    /\ store' = [store EXCEPT
                   !.workflows[w].nodes = IF nodes # Null THEN nodes[1] ELSE @,
                   !.workflows[w].edges = IF edges # Null THEN edges[1] ELSE @]

\* clone: a new workflow with copies of the nodes and the edges.
Clone(w) ==
    /\ store.pc = "idle"
    /\ w \in 1..Len(store.workflows)
    /\ Len(store.workflows) < MaxWorkflows
    /\ store' = [store EXCEPT !.workflows = Append(@, store.workflows[w])]

\* create_node: the row is added.
CreateNode(w, node) ==
    /\ store.pc = "idle"
    /\ w \in 1..Len(store.workflows)
    /\ Len(store.workflows[w].nodes) < MaxNodes
    /\ ForeignKeysHold(<<node>>)
    /\ store' = [store EXCEPT !.workflows[w].nodes = Append(@, node)]

\* update_node: every field of the data that is not None is assigned.
UpdateNode(w, k, node_id, subgraph_workflow_id) ==
    /\ store.pc = "idle"
    /\ w \in 1..Len(store.workflows)
    /\ k \in 1..Len(store.workflows[w].nodes)
    /\ subgraph_workflow_id # Null => subgraph_workflow_id[1] \in 1..Len(store.workflows)
    /\ store' = [store EXCEPT
                   !.workflows[w].nodes[k].node_id =
                       IF node_id # Null THEN node_id[1] ELSE @,
                   !.workflows[w].nodes[k].subgraph_workflow_id =
                       IF subgraph_workflow_id # Null THEN subgraph_workflow_id ELSE @]

\* delete_node: the row is deleted.
DeleteNode(w, k) ==
    /\ store.pc = "idle"
    /\ w \in 1..Len(store.workflows)
    /\ k \in 1..Len(store.workflows[w].nodes)
    /\ store' = [store EXCEPT !.workflows[w].nodes = Remove(@, k)]

\* create_edge: the row is added.
CreateEdge(w, edge) ==
    /\ store.pc = "idle"
    /\ w \in 1..Len(store.workflows)
    /\ Len(store.workflows[w].edges) < MaxEdges
    /\ store' = [store EXCEPT !.workflows[w].edges = Append(@, edge)]

\* update_edge: every field of the data that is not None is assigned.
UpdateEdge(w, k, source_node, target_node) ==
    /\ store.pc = "idle"
    /\ w \in 1..Len(store.workflows)
    /\ k \in 1..Len(store.workflows[w].edges)
    /\ store' = [store EXCEPT
                   !.workflows[w].edges[k].source_node =
                       IF source_node # Null THEN source_node[1] ELSE @,
                   !.workflows[w].edges[k].target_node =
                       IF target_node # Null THEN target_node[1] ELSE @]

\* delete_edge: the row is deleted.
DeleteEdge(w, k) ==
    /\ store.pc = "idle"
    /\ w \in 1..Len(store.workflows)
    /\ k \in 1..Len(store.workflows[w].edges)
    /\ store' = [store EXCEPT !.workflows[w].edges = Remove(@, k)]

\* compile(workflow_id): the workflow is loaded and _compile_workflow starts
\* with its first node.  A frame of the stack is one call of compile that
\* has not returned: the workflow and the node the loop is at.
Compile(w) ==
    /\ store.pc = "idle"
    /\ w \in 1..Len(store.workflows)
    /\ store' = [store EXCEPT !.pc = "compiling", !.stack = <<[workflow |-> w, k |-> 1]>>]

\* builder.add_node(node.node_id, node_func) raises for a node_id that the
\* builder has already.
AddNodeRaises(frame) ==
    \E i \in 1..(frame.k - 1) :
        store.workflows[frame.workflow].nodes[i].node_id
            = store.workflows[frame.workflow].nodes[frame.k].node_id

\* _add_edges and builder.compile raise when an edge names no node of the
\* builder or nothing leaves __start__.
BuildRaises(workflow) ==
    \/ ~ValidateWorkflow(workflow.nodes, workflow.edges)
    \/ \A k \in 1..Len(workflow.edges) : workflow.edges[k].source_node # "__start__"

\* The top frame is done with its node: the node is added to the builder and
\* the loop goes on; an exception of add_node is wrapped by every compile on
\* the stack.
NodeAdded(stack) ==
    LET top == stack[Len(stack)]
    IN IF AddNodeRaises(top)
       THEN [store EXCEPT !.pc = "failed", !.stack = <<>>,
                          !.error = Some("WorkflowCompilationError")]
       ELSE [store EXCEPT !.stack = [stack EXCEPT ![Len(stack)].k = @ + 1]]

\* _create_node_function for a node that is no sub-graph, then add_node.
CompileNode ==
    LET top == store.stack[Len(store.stack)]
    IN /\ store.pc = "compiling"
       /\ top.k <= Len(store.workflows[top.workflow].nodes)
       /\ store.workflows[top.workflow].nodes[top.k].subgraph_workflow_id = Null
       /\ store' = NodeAdded(store.stack)

\* _create_subgraph_node: subgraph = await self.compile(
\* node.subgraph_workflow_id), a nested call of compile.
CompileSubgraph ==
    LET top == store.stack[Len(store.stack)]
        node == store.workflows[top.workflow].nodes[top.k]
    IN /\ store.pc = "compiling"
       /\ top.k <= Len(store.workflows[top.workflow].nodes)
       /\ node.subgraph_workflow_id # Null
       /\ Len(store.stack) < MaxDepth
       /\ store' = [store EXCEPT
                      !.stack = Append(@, [workflow |-> node.subgraph_workflow_id[1],
                                           k |-> 1])]

\* The nested call would go deeper than the interpreter allows: it raises
\* RecursionError, which every compile on the stack wraps.
RecursionLimit ==
    LET top == store.stack[Len(store.stack)]
    IN /\ store.pc = "compiling"
       /\ top.k <= Len(store.workflows[top.workflow].nodes)
       /\ store.workflows[top.workflow].nodes[top.k].subgraph_workflow_id # Null
       /\ Len(store.stack) >= MaxDepth
       /\ store' = [store EXCEPT !.pc = "failed", !.stack = <<>>,
                                 !.error = Some("WorkflowCompilationError")]

\* The loop over the nodes is over: the edges are added, the graph is
\* compiled and compile returns; the caller adds its sub-graph node.
CompileReturn ==
    LET top == store.stack[Len(store.stack)]
    IN /\ store.pc = "compiling"
       /\ top.k > Len(store.workflows[top.workflow].nodes)
       /\ store' = IF BuildRaises(store.workflows[top.workflow])
                   THEN [store EXCEPT !.pc = "failed", !.stack = <<>>,
                                      !.error = Some("WorkflowCompilationError")]
                   ELSE IF Len(store.stack) = 1
                   THEN [store EXCEPT !.pc = "compiled", !.stack = <<>>]
                   ELSE NodeAdded(SubSeq(store.stack, 1, Len(store.stack) - 1))

StoreOnly == UNCHANGED <<vars, dispatch, graph, agent, reduced, tools, sub>>

NextStore ==
    \/ \E nodes \in SeqsUpTo(NodeRows, MaxNodes), edges \in SeqsUpTo(EdgeRows, MaxEdges) :
          Create(nodes, edges) /\ StoreOnly
    \/ \E w \in 1..MaxWorkflows,
          nodes \in {Null} \cup {Some(l) : l \in SeqsUpTo(NodeRows, MaxNodes)},
          edges \in {Null} \cup {Some(l) : l \in SeqsUpTo(EdgeRows, MaxEdges)} :
          Update(w, nodes, edges) /\ StoreOnly
    \/ \E w \in 1..MaxWorkflows : Clone(w) /\ StoreOnly
    \/ \E w \in 1..MaxWorkflows, node \in NodeRows : CreateNode(w, node) /\ StoreOnly
    \/ \E w \in 1..MaxWorkflows, k \in 1..MaxNodes,
          node_id \in {Null, Some("a"), Some("b")},
          subgraph_workflow_id \in {Null} \cup {Some(v) : v \in 1..MaxWorkflows} :
          UpdateNode(w, k, node_id, subgraph_workflow_id) /\ StoreOnly
    \/ \E w \in 1..MaxWorkflows, k \in 1..MaxNodes : DeleteNode(w, k) /\ StoreOnly
    \/ \E w \in 1..MaxWorkflows, edge \in EdgeRows : CreateEdge(w, edge) /\ StoreOnly
    \/ \E w \in 1..MaxWorkflows, k \in 1..MaxEdges,
          source_node \in {Null, Some("__start__"), Some("a")},
          target_node \in {Null, Some("a"), Some("b")} :
          UpdateEdge(w, k, source_node, target_node) /\ StoreOnly
    \/ \E w \in 1..MaxWorkflows, k \in 1..MaxEdges : DeleteEdge(w, k) /\ StoreOnly

SpecStore == Init /\ [][NextStore]_allvars

\* Workflows are created, their nodes are updated, and one of them is compiled.
NextCompile ==
    \/ \E nodes \in SeqsUpTo(NodeRows, MaxNodes), edges \in SeqsUpTo(EdgeRows, MaxEdges) :
          Create(nodes, edges) /\ StoreOnly
    \/ \E w \in 1..MaxWorkflows, k \in 1..MaxNodes,
          node_id \in {Null, Some("a"), Some("b")},
          subgraph_workflow_id \in {Null} \cup {Some(v) : v \in 1..MaxWorkflows} :
          UpdateNode(w, k, node_id, subgraph_workflow_id) /\ StoreOnly
    \/ \E w \in 1..MaxWorkflows : Compile(w) /\ StoreOnly
    \/ CompileNode /\ StoreOnly
    \/ CompileSubgraph /\ StoreOnly
    \/ RecursionLimit /\ StoreOnly
    \/ CompileReturn /\ StoreOnly

SpecCompile == Init /\ [][NextCompile]_allvars

\* ================================================================ reducers
\* The reducer of a channel of WorkflowState is applied to the value the
\* channel holds and the value a node has written to it.
MaxValues == 4       \* distinct values of a channel

\* The channels annotated with _take_last.
TakeLastKeys == {"output", "current_node", "error"}
ChannelValues == {Null} \cup {Some(v) : v \in 1..MaxValues}

\* A node returns an update with the key: left is the value of the channel,
\* right the value of the update (None included).
NodeWrites(key, left, right) ==
    /\ reduced.pc = "idle"
    /\ reduced' = [reduced EXCEPT !.pc = "written", !.key = key,
                                  !.left = left, !.right = right]

\* The update is folded: the channel holds reducer(left, right).
ApplyReducer ==
    /\ reduced.pc = "written"
    /\ reduced' = [reduced EXCEPT !.pc = "folded",
                                  !.value = TakeLast(reduced.left, reduced.right)]

ReducerOnly == UNCHANGED <<vars, dispatch, graph, agent, store, tools, sub>>

NextReducer ==
    \/ \E key \in TakeLastKeys, left \in ChannelValues, right \in ChannelValues :
          NodeWrites(key, left, right) /\ ReducerOnly
    \/ ApplyReducer /\ ReducerOnly

SpecReducer == Init /\ [][NextReducer]_allvars

\* ============================================================== tool calls
\* _execute_tool_calls(response, tools_by_name): the tool calls of one
\* response of the model are executed in turn, and each gives a ToolMessage.
MaxCalls == 3        \* tool calls of one response

\* tools_by_name holds the tools of the agent that could be instantiated.
ToolsByName == {"search"}
ToolNames == {"search", "ghost"}

\* response.tool_calls: dicts with "name", "args" and "id"; the ids of the
\* calls of one response differ.
ToolCalls(names) == [k \in 1..Len(names) |-> [name |-> names[k], id |-> NodeId("call", k)]]

\* ToolMessage(content=content, tool_call_id=tool_id, name=tool_name)
ToolMessage(content, tool_call) ==
    [content |-> content, tool_call_id |-> tool_call.id, name |-> tool_call.name]

ExecuteToolCalls(names) ==
    /\ tools.pc = "idle"
    /\ tools' = [tools EXCEPT !.pc = "loop", !.tool_calls = ToolCalls(names)]

\* The tool call the loop is at.
ToolCall == tools.tool_calls[Len(tools.tool_messages) + 1]

\* lc_tool.ainvoke(tool_args) returns: content = str(result), cut to
\* MAX_TOOL_OUTPUT_CHARS with a marker when it is longer.
ToolReturns(long) ==
    /\ tools.pc = "loop"
    /\ Len(tools.tool_messages) < Len(tools.tool_calls)
    /\ ToolCall.name \in ToolsByName
    /\ tools' = [tools EXCEPT
                   !.invoked = @ \cup {Len(tools.tool_messages) + 1},
                   !.outcomes = Append(@, IF long THEN "returns long" ELSE "returns"),
                   !.tool_messages =
                       Append(@, ToolMessage(IF long
                                             THEN "result of " \o ToolCall.name
                                                  \o " [OUTPUT TRUNCATED]"
                                             ELSE "result of " \o ToolCall.name,
                                             ToolCall))]

\* An exception leaves the loop.
ToolRaises_Propagates ==
    /\ tools.pc = "loop"
    /\ Len(tools.tool_messages) < Len(tools.tool_calls)
    /\ ToolCall.name \in ToolsByName
    /\ tools' = [tools EXCEPT
                   !.invoked = @ \cup {Len(tools.tool_messages) + 1},
                   !.outcomes = Append(@, "raises"),
                   !.pc = "raised"]

\* lc_tool.ainvoke(tool_args) raises an Exception: it is caught and the
\* content is the error text.
ToolRaises ==
    /\ tools.pc = "loop"
    /\ Len(tools.tool_messages) < Len(tools.tool_calls)
    /\ ToolCall.name \in ToolsByName
    /\ tools' = [tools EXCEPT
                   !.invoked = @ \cup {Len(tools.tool_messages) + 1},
                   !.outcomes = Append(@, "raises"),
                   !.tool_messages =
                       Append(@, ToolMessage("Error executing tool " \o ToolCall.name
                                             \o ": msg", ToolCall))]

\* tools_by_name.get(tool_name) is None: nothing is invoked.
ToolNotFound ==
    /\ tools.pc = "loop"
    /\ Len(tools.tool_messages) < Len(tools.tool_calls)
    /\ ToolCall.name \notin ToolsByName
    /\ tools' = [tools EXCEPT
                   !.outcomes = Append(@, "not found"),
                   !.tool_messages =
                       Append(@, ToolMessage("Tool " \o ToolCall.name \o " not found.",
                                             ToolCall))]

\* return tool_messages
ReturnToolMessages ==
    /\ tools.pc = "loop"
    /\ Len(tools.tool_messages) = Len(tools.tool_calls)
    /\ tools' = [tools EXCEPT !.pc = "returned"]

ToolsOnly == UNCHANGED <<vars, dispatch, graph, agent, store, reduced, sub>>

NextTools ==
    \/ \E names \in SeqsUpTo(ToolNames, MaxCalls) \ {<<>>} :
          ExecuteToolCalls(names) /\ ToolsOnly
    \/ \E long \in BOOLEAN : ToolReturns(long) /\ ToolsOnly
    \/ ToolRaises /\ ToolsOnly
    \/ ToolNotFound /\ ToolsOnly
    \/ ReturnToolMessages /\ ToolsOnly

SpecTools == Init /\ [][NextTools]_allvars

\* ========================================================= sub-graph runs
\* subgraph_executor of _create_subgraph_node: the compiled sub-graph, which
\* has the checkpointer of the process, is invoked with the state of the
\* parent under the thread id f"subgraph_{node.node_id}". A state is the
\* intermediate dict, a set of entries [key, by]: the value under the key
\* was written by execution `by`.
ParentKeys == {"a", "b"}

\* _merge_dicts(left, right) == {**left, **right}
MergeDicts(left, right) ==
    right \cup {x \in left : \A y \in right : y.key # x.key}

\* config = {"configurable": {"thread_id": f"subgraph_{node.node_id}"}}
SubgraphThreadId(node_id) == "subgraph_" \o node_id

\* An execution of a workflow with the sub-graph node node_id reaches the
\* node; a node upstream of it has written intermediate[key].
ParentReachesSubgraph(e, node_id, key) ==
    /\ sub.runs[e].pc = "idle"
    /\ sub' = [sub EXCEPT !.runs[e] =
                 [NoRun EXCEPT !.pc = "parent", !.node_id = node_id,
                               !.state = {[key |-> key, by |-> e]}]]

\* subgraph.ainvoke(state, config): the input is folded into the channel
\* values the thread holds and the result is saved to the thread.
SubgraphInvoke(e) ==
    /\ sub.runs[e].pc = "parent"
    /\ LET node_id == sub.runs[e].node_id
           folded == MergeDicts(sub.threads[node_id], sub.runs[e].state)
       IN  sub' = [sub EXCEPT !.runs[e].pc = "sub",
                              !.runs[e].thread_id = Some(SubgraphThreadId(node_id)),
                              !.runs[e].sub_state = folded,
                              !.threads[node_id] = folded]

\* The agent node of the sub-graph runs: its write is folded into the state
\* of the run and the state is saved to the thread.
SubgraphNodeRuns(e) ==
    /\ sub.runs[e].pc = "sub"
    /\ LET folded == MergeDicts(sub.runs[e].sub_state, {[key |-> "s", by |-> e]})
       IN  sub' = [sub EXCEPT !.runs[e].pc = "ran",
                              !.runs[e].sub_state = folded,
                              !.runs[e].output = Some(e),
                              !.threads[sub.runs[e].node_id] = folded]

\* The sub-graph returns and subgraph_executor returns its update:
\* intermediate = {**state["intermediate"], node_id: result["output"]}.
SubgraphReturns(e) ==
    /\ sub.runs[e].pc = "ran"
    /\ sub' = [sub EXCEPT
                 !.runs[e].pc = "done",
                 !.runs[e].state =
                     MergeDicts(@, {[key |-> sub.runs[e].node_id, by |-> e]})]

SubOnly == UNCHANGED <<vars, dispatch, graph, agent, store, reduced, tools>>

NextSub ==
    \/ \E e \in 1..MaxParents, node_id \in SubgraphNodeIds, key \in ParentKeys :
          ParentReachesSubgraph(e, node_id, key) /\ SubOnly
    \/ \E e \in 1..MaxParents : SubgraphInvoke(e) /\ SubOnly
    \/ \E e \in 1..MaxParents : SubgraphNodeRuns(e) /\ SubOnly
    \/ \E e \in 1..MaxParents : SubgraphReturns(e) /\ SubOnly

SpecSub == Init /\ [][NextSub]_allvars

\* ================================================================ claims
Row(e) == db[e][1]
Stored == {e \in ExecIds : db[e] # Null}

\* C1: every change of an execution record's status follows the FSM
\* pending -> running, running -> completed | failed | cancelled,
\* failed | cancelled -> running; in particular never pending -> cancelled
\* and never out of a terminal status except towards running.
StatusFSM ==
    {<<PENDING, RUNNING>>, <<RUNNING, COMPLETED>>, <<RUNNING, FAILED>>,
     <<RUNNING, CANCELLED>>, <<FAILED, RUNNING>>, <<CANCELLED, RUNNING>>}

C1_StatusFollowsFSM ==
    [][/\ \A e \in ExecIds :
            (db[e] # Null /\ db'[e] # Null /\ db[e][1].status # db'[e][1].status)
                => <<db[e][1].status, db'[e][1].status>> \in StatusFSM
       /\ \A r \in ReqIds :
            (/\ reqs[r].row # Null /\ reqs'[r].row # Null
             /\ reqs[r].id = reqs'[r].id
             /\ reqs[r].row[1].status # reqs'[r].row[1].status)
                => <<reqs[r].row[1].status, reqs'[r].row[1].status>> \in StatusFSM]_vars

\* C3: when a node raises during execute, the record that remains in the
\* store once the request is over has status failed and the error text.
C3_FailedRecordKept ==
    [][\A r \in ReqIds :
         (/\ reqs[r].op = "execute"
          /\ reqs[r].pc = "raise"
          /\ reqs'[r].pc = "idle")
            => /\ db'[reqs[r].id] # Null
               /\ db'[reqs[r].id][1].status = FAILED
               /\ db'[reqs[r].id][1].error_message = Some(NodeError)]_vars

\* C4 as stated: a stored record in a terminal status has exactly one of
\* output_data and error_message, and output_data iff it is completed.
C4_ExactlyOneOfOutputAndError ==
    \A e \in Stored :
        Row(e).status \in Terminal =>
            /\ (Row(e).output_data # Null) # (Row(e).error_message # Null)
            /\ (Row(e).output_data # Null) <=> (Row(e).status = COMPLETED)

\* C4 as amended: a stored record in a terminal status has output_data iff
\* it is completed and error_message iff it is failed; a cancelled record
\* has neither.
C4_OutputIffCompletedErrorIffFailed ==
    \A e \in Stored :
        Row(e).status \in Terminal =>
            /\ (Row(e).output_data # Null) <=> (Row(e).status = COMPLETED)
            /\ (Row(e).error_message # Null) <=> (Row(e).status = FAILED)

C4_Witness ==
    /\ \E e \in Stored : Row(e).status = CANCELLED
    /\ \E e \in Stored : Row(e).status = FAILED

\* C5: a stored record in a terminal status has started_at set and not after
\* completed_at, and once written neither timestamp of a record is written
\* again.
C5_TimestampsSetOnce ==
    [][/\ \A e \in ExecIds :
            (db'[e] # Null /\ db'[e][1].status \in Terminal)
                => /\ db'[e][1].started_at # Null
                   /\ db'[e][1].completed_at # Null
                   /\ db'[e][1].started_at[1] <= db'[e][1].completed_at[1]
       /\ \A e \in ExecIds :
            (db[e] # Null /\ db'[e] # Null)
                => /\ db[e][1].started_at # Null
                        => db'[e][1].started_at = db[e][1].started_at
                   /\ db[e][1].completed_at # Null
                        => db'[e][1].completed_at = db[e][1].completed_at]_vars

\* C6: resume goes through only for a cancelled or failed execution, and then
\* the execution it creates has the thread_id and the input_data of the
\* resumed one; otherwise it is rejected and its session holds no record.
C6_ResumeGuardAndReuse ==
    \A r \in ReqIds :
        reqs[r].op = "resume" =>
            IF /\ reqs[r].execution # Null
               /\ reqs[r].execution[1].status \in {CANCELLED, FAILED}
            THEN /\ reqs[r].row # Null
                 /\ reqs[r].id # reqs[r].target
                 /\ reqs[r].row[1].thread_id = reqs[r].execution[1].thread_id
                 /\ reqs[r].row[1].input_data = reqs[r].execution[1].input_data
            ELSE /\ reqs[r].pc = "raise"
                 /\ reqs[r].result \in {"ExecutionError", "ExecutionNotFoundError"}
                 /\ reqs[r].id = 0
                 /\ reqs[r].row = Null

C6_Witness ==
    \E r \in ReqIds :
        /\ reqs[r].op = "resume"
        /\ reqs[r].pc = "exit"
        /\ reqs[r].result = "ok"
        /\ reqs[r].execution[1].input_data = Some({"query"})

\* C7: a resumed run of A -> B -> C in which A had completed does not invoke
\* A again; the first node it invokes is the successor of the last node that
\* completed in the resumed execution.
C7_ResumeSkipsCompletedNodes ==
    \A r \in ReqIds :
        (/\ reqs[r].op = "resume"
         /\ reqs[r].execution # Null
         /\ Len(reqs[r].execution[1].steps) >= 1
         /\ reqs[r].invoked # <<>>)
            => /\ Len(reqs[r].execution[1].steps) < Len(Nodes)
               /\ reqs[r].invoked[1] = Nodes[Len(reqs[r].execution[1].steps) + 1]

\* C8 as stated: resume of a completed execution is a no-op that returns the
\* record without an error and creates nothing.
C8_ResumeCompletedIsNoop ==
    \A r \in ReqIds :
        (/\ reqs[r].op = "resume"
         /\ reqs[r].execution # Null
         /\ reqs[r].execution[1].status = COMPLETED)
            => /\ reqs[r].result = "ok"
               /\ reqs[r].pc = "exit"
               /\ reqs[r].id = 0

\* C8 as amended: resume of a completed execution is rejected with
\* ExecutionError; it creates no execution and adds no steps.
C8_ResumeCompletedRejected ==
    \A r \in ReqIds :
        (/\ reqs[r].op = "resume"
         /\ reqs[r].execution # Null
         /\ reqs[r].execution[1].status = COMPLETED)
            => /\ reqs[r].result = "ExecutionError"
               /\ reqs[r].pc = "raise"
               /\ reqs[r].id = 0
               /\ reqs[r].row = Null
               /\ db[reqs[r].target] = reqs[r].execution

C8_Witness ==
    \E r \in ReqIds :
        /\ reqs[r].op = "resume"
        /\ reqs[r].execution # Null
        /\ reqs[r].execution[1].status = COMPLETED
        /\ reqs[r].pc = "raise"

\* C9 as stated: cancel of an execution in a terminal status returns the
\* record without raising and changes nothing.
C9_CancelTerminalIsNoop ==
    \A r \in ReqIds :
        (/\ reqs[r].op = "cancel"
         /\ reqs[r].execution # Null
         /\ reqs[r].execution[1].status \in Terminal)
            => /\ reqs[r].result = "ok"
               /\ reqs[r].pc = "exit"
               /\ reqs[r].id = 0

\* C9 as amended: cancel of an execution in a terminal status is rejected
\* with ExecutionError and changes neither status nor completed_at.
C9_CancelTerminalRejected ==
    \A r \in ReqIds :
        (/\ reqs[r].op = "cancel"
         /\ reqs[r].execution # Null
         /\ reqs[r].execution[1].status \in Terminal)
            => /\ reqs[r].result = "ExecutionError"
               /\ reqs[r].pc = "raise"
               /\ reqs[r].id = 0
               /\ reqs[r].row = Null

C9_Witness ==
    \E r \in ReqIds :
        /\ reqs[r].op = "cancel"
        /\ reqs[r].execution # Null
        /\ reqs[r].execution[1].status = CANCELLED
        /\ reqs[r].pc = "raise"

\* C10: the execution restart creates has the input_data of the original and
\* another thread_id, and no step of a restart request changes the original
\* record.
C10_RestartFreshThreadSameInput ==
    [][\A r \in ReqIds :
         /\ (reqs'[r].op = "restart" /\ reqs'[r].execution # Null)
               => /\ reqs'[r].row # Null
                  /\ reqs'[r].id # reqs'[r].target
                  /\ reqs'[r].row[1].input_data = reqs'[r].execution[1].input_data
                  /\ reqs'[r].row[1].thread_id # reqs'[r].execution[1].thread_id
         /\ (reqs[r].op = "restart" /\ reqs'[r] # reqs[r])
               => db'[reqs[r].target] = db[reqs[r].target]
         /\ (reqs[r].op = "idle" /\ reqs'[r].op = "restart")
               => db'[reqs'[r].target] = db[reqs'[r].target]]_vars

C10_Witness ==
    \E r \in ReqIds :
        /\ reqs[r].op = "restart"
        /\ reqs[r].pc = "exit"
        /\ reqs[r].result = "ok"
        /\ reqs[r].execution[1].input_data = Some({"query"})
        /\ db[reqs[r].target] # Null

\* ---------------------------------------------------------------- C11
TerminalEvents == {"execution_complete", "error"}
Last(seq) == seq[Len(seq)]

DeclaredRoutes ==
    IF dispatch.kind = "router_config" THEN dispatch.declared
    ELSE EdgeConditions(dispatch.declared)

\* The defaults the declaration allows: the router_config's default, or the
\* target of a condition-less edge, else __end__.
DeclaredDefaults ==
    IF dispatch.kind = "router_config"
    THEN {ConfigDefault(dispatch.config_default)}
    ELSE LET plain == {dispatch.declared[k].target_node :
                         k \in {n \in 1..Len(dispatch.declared) :
                                  ~HasCondition(dispatch.declared[n])}}
         IN IF plain = {} THEN {"__end__"} ELSE plain

Truthy(routes) == {k \in 1..Len(routes) : Eval(routes[k].condition) = "truthy"}
First(S) == CHOOSE k \in S : \A n \in S : k <= n

\* C12: a dispatch of an edge group with conditions chooses exactly one
\* target: the target of the first route in declaration order whose
\* condition is true, or the group's default when none is true.
C12_FirstTrueRouteInDeclarationOrder ==
    (dispatch.pc = "done" /\ dispatch.kind \in {"router_config", "edges"}) =>
        /\ dispatch.chosen # Null
        /\ IF Truthy(DeclaredRoutes) # {}
           THEN dispatch.chosen[1] = DeclaredRoutes[First(Truthy(DeclaredRoutes))].target
           ELSE dispatch.chosen[1] \in DeclaredDefaults

\* C13: when the evaluation of a condition raised during a dispatch, the
\* default of the group is taken, even if a later route is true, and the
\* error is recorded in the step's error_message.
C13_RaisingConditionTakesDefault ==
    (/\ dispatch.pc = "done"
     /\ dispatch.kind \in {"router_config", "edges"}
     /\ \E k \in 1..Len(dispatch.routes) :
           /\ Eval(dispatch.routes[k].condition) = "raises"
           /\ \A n \in 1..(k - 1) : Eval(dispatch.routes[n].condition) # "truthy")
        => /\ dispatch.chosen = Some(dispatch.default_target)
           /\ dispatch.error_message # Null

\* ------------------------------------------------------------------ C14
HasFanOut == \E k \in 1..Len(graph.workflow.nodes) :
                 graph.workflow.nodes[k].node_type = PARALLEL

Completed(node_id) == graph.completed[NodeIndex(graph.workflow, node_id)]

Siblings == {NodeOf(graph.workflow, "p").parallel_nodes[i] :
                i \in 1..Len(NodeOf(graph.workflow, "p").parallel_nodes)}

\* C14: for every fan-out of N siblings the join runs exactly once, and only
\* after each sibling has completed and its update has been folded: the join
\* never runs twice, never runs before a sibling has completed, and once the
\* parallel node has fanned out and the run is over without a node of the
\* workflow having raised, the join has run once.
C14_JoinRunsOnceAfterAllSiblings ==
    (graph.pc # "idle" /\ HasFanOut) =>
        /\ Completed("j") <= 1
        /\ Completed("j") = 1 => \A s \in Siblings : Completed(s) >= 1
        /\ (graph.dispatched /\ Len(graph.sends) > 0
              /\ graph.pc \in {"completed", "failed"}
              /\ graph.error # Some(NodeError))
           => Completed("j") = 1

\* ------------------------------------------------------------------ C15
\* C15: at every point of a run and for every node of the workflow,
\* intermediate[node_id] is present if and only if the node has completed at
\* least once in the run.
C15_IntermediateKeyIffCompleted ==
    graph.pc # "idle" =>
        \A k \in 1..Len(graph.workflow.nodes) :
            (graph.workflow.nodes[k].node_id \in graph.state.intermediate)
                <=> graph.completed[k] >= 1

\* ------------------------------------------------------------------ C16
\* C16: one invocation of an agent node makes at most MAX_TOOL_ITERATIONS
\* provider calls, whatever the provider answers, and comes to an end.
C16_AtMostMaxToolIterationsProviderCalls ==
    agent.kind = "node" => agent.calls <= MAX_TOOL_ITERATIONS

\* ------------------------------------------------------------------ C17
\* C17: when the loop has reached MAX_TOOL_ITERATIONS and the provider still
\* requests tool calls, the invocation ends normally and its output is the
\* sentinel "Max tool iterations reached", for the agent node of a workflow
\* as for AgentExecutor.
C17_SentinelOutputAtLimit ==
    (/\ agent.pc = "done"
     /\ agent.iteration = MAX_TOOL_ITERATIONS
     /\ agent.response[1].tool_calls > 0)
    => agent.output = Some(Sentinel)

\* ------------------------------------------------------------------ C18
\* C18: after any sequence of operations of the workflow service the node_id
\* values of the nodes stored for one workflow are pairwise distinct.
C18_NodeIdsUnique ==
    \A w \in 1..Len(store.workflows) :
        \A i, k \in 1..Len(store.workflows[w].nodes) :
            store.workflows[w].nodes[i].node_id = store.workflows[w].nodes[k].node_id
                => i = k

\* ------------------------------------------------------------------ C19
\* C19: after any sequence of operations of the workflow service every
\* stored edge has a source that is __start__ or the node_id of a stored node
\* of its workflow, and a target that is __end__ or such a node_id.
C19_EdgeEndpointsValid ==
    \A w \in 1..Len(store.workflows) :
        LET node_ids == {store.workflows[w].nodes[k].node_id :
                            k \in 1..Len(store.workflows[w].nodes)}
        IN \A k \in 1..Len(store.workflows[w].edges) :
              /\ store.workflows[w].edges[k].source_node \in {"__start__"} \cup node_ids
              /\ store.workflows[w].edges[k].target_node \in {"__end__"} \cup node_ids

\* ------------------------------------------------------------------ C20
\* C20: a workflow whose sub-graph nodes lead back to the workflow itself is
\* rejected by validation or at the latest by compile, which does not walk
\* round the inclusion cycle: no call of compile is nested in a call of
\* compile for the same workflow.
C20_CompileDoesNotFollowInclusionCycle ==
    \A i, k \in 1..Len(store.stack) :
        store.stack[i].workflow = store.stack[k].workflow => i = k

\* ------------------------------------------------------------------ C30
\* The loaded edges of the group are two or more and none has a condition.
SeveralEdgesNoCondition ==
    /\ dispatch.pc # "idle"
    /\ Len(dispatch.edges) >= 2
    /\ \A k \in 1..Len(dispatch.edges) : ~HasCondition(dispatch.edges[k])

\* C30 as stated: a source with two or more edges, none with a condition, is
\* compiled to exactly one edge, to the target of the last edge in load
\* order, and every dispatch from the source goes there.
C30_SeveralEdgesNoConditionOneDirectEdge ==
    SeveralEdgesNoCondition =>
        /\ dispatch.kind = "direct"
        /\ dispatch.chosen = Some(dispatch.edges[Len(dispatch.edges)].target_node)

\* C30 amended: that holds unless the source is a router node with a
\* router_config; then the edges are not compiled at all and the group is
\* the router of the config, with the routes and the default of the config.
C30_OneDirectEdgeUnlessRouterConfig ==
    SeveralEdgesNoCondition =>
        IF dispatch.kind = "router_config"
        THEN /\ dispatch.routes = dispatch.declared
             /\ dispatch.default_target = ConfigDefault(dispatch.config_default)
             /\ dispatch.pc = "done" =>
                   dispatch.chosen[1] \in {dispatch.routes[k].target : k \in 1..Len(dispatch.routes)}
                                          \cup {dispatch.default_target}
        ELSE /\ dispatch.kind = "direct"
             /\ dispatch.pc = "done"
             /\ dispatch.routes = <<>>
             /\ dispatch.chosen = Some(dispatch.edges[Len(dispatch.edges)].target_node)

C30_Witness ==
    /\ SeveralEdgesNoCondition
    /\ dispatch.kind = "direct"
    /\ dispatch.edges[1].target_node # dispatch.edges[Len(dispatch.edges)].target_node
    /\ dispatch.chosen = Some(dispatch.edges[Len(dispatch.edges)].target_node)

\* ------------------------------------------------------------------ C27
\* C27 as stated: the reducer of output, current_node and error is
\* last-write-wins: for every value e of the channel and every value u a node
\* writes, None included, the folded value is u.
C27_FoldedValueIsTheUpdate ==
    reduced.pc = "folded" => reduced.value = reduced.right

\* C27 amended: the folded value is u when u is not None, and it is e when u
\* is None: a write of None leaves the channel as it is, so no node can
\* reset output, current_node or error to None.
C27_FoldedValueIsTheUpdateUnlessNone ==
    reduced.pc = "folded" =>
        /\ reduced.right # Null => reduced.value = reduced.right
        /\ reduced.right = Null => reduced.value = reduced.left

C27_Witness ==
    /\ reduced.pc = "folded"
    /\ reduced.left # Null
    /\ reduced.right = Null
    /\ reduced.value = reduced.left

\* ------------------------------------------------------------------ C26
\* The keys of intermediate that the siblings of the fan-out upstream of a
\* join write; a join with no fan-out upstream has none.
UpstreamSiblingKeys ==
    IF HasFanOut
    THEN {NodeOf(graph.workflow, s).agent_name : s \in Siblings}
    ELSE {}

\* C26: a join aggregates only the intermediate values of its own upstream
\* parallel siblings: a value that a node before the fan-out wrote to
\* intermediate is not part of what the join returns.
C26_JoinAggregatesOnlySiblingValues ==
    \A w \in graph.writes :
        NodeOf(graph.workflow, w.node).node_type = JOIN
            => w.update.output[1][2] \subseteq UpstreamSiblingKeys

\* ------------------------------------------------------------------ C21
\* C21: each sibling of a fan-out gets an isolated copy of the state taken at
\* dispatch: the payloads of two siblings share no dict that a sibling
\* writes to (an agent node writes its output into the intermediate dict of
\* its payload), so that no write of one sibling is seen by another.
C21_SiblingPayloadsIsolated ==
    \A i, k \in 1..Len(graph.sends) :
        i # k => /\ graph.sends[i].state # graph.sends[k].state
                 /\ graph.sends[i].intermediate # graph.sends[k].intermediate

C23_DynamicFanOutInvokesWorkerPerItem ==
    (/\ HasFanOut
     /\ graph.dispatched
     /\ graph.workflow.input.items # Null
     /\ Len(NodeOf(graph.workflow, "p").parallel_nodes) = 1
     /\ graph.pc \in {"completed", "failed"}
     /\ graph.error # Some(NodeError))
    => /\ Len(graph.sends) = Len(graph.workflow.input.items[1])
       /\ \A k \in 1..Len(graph.sends) : graph.sends[k].parallel_index = Some(k - 1)
       /\ Completed("s1") = Len(graph.workflow.input.items[1])

\* ------------------------------------------------------------------ C28
\* C28: in the tool loop of the agent node every tool call of a response
\* gives exactly one tool turn with the id of the call, in the order of the
\* calls, and no exception of a tool leaves the loop: a bound tool that
\* raises gives "Error executing tool {name}: {msg}", and a call of a tool
\* that is not bound invokes nothing and gives "Tool {name} not found.".
C28_OneToolTurnPerCallErrorsRecovered ==
    /\ tools.pc # "raised"
    /\ Len(tools.tool_messages) <= Len(tools.tool_calls)
    /\ tools.pc = "returned" => Len(tools.tool_messages) = Len(tools.tool_calls)
    /\ \A k \in 1..Len(tools.tool_messages) :
          /\ tools.tool_messages[k].tool_call_id = tools.tool_calls[k].id
          /\ tools.tool_messages[k].name = tools.tool_calls[k].name
          /\ tools.outcomes[k] = "raises" =>
                tools.tool_messages[k].content
                    = "Error executing tool " \o tools.tool_calls[k].name \o ": msg"
          /\ tools.tool_calls[k].name \notin ToolsByName =>
                /\ k \notin tools.invoked
                /\ tools.tool_messages[k].content
                      = "Tool " \o tools.tool_calls[k].name \o " not found."

C28_Witness ==
    /\ tools.pc = "returned"
    /\ Len(tools.tool_calls) = MaxCalls
    /\ \E i, k \in 1..Len(tools.tool_calls) :
          /\ i < k
          /\ tools.outcomes[i] = "raises"
          /\ tools.outcomes[k] = "not found"

\* ------------------------------------------------------------------ C29
\* C29: two executions whose workflows have a sub-graph node of the same
\* node_id do not share sub-graph state: the checkpoint threads of their
\* sub-graph runs differ, and the state a sub-graph run sees holds no value
\* written by the other execution.
C29_SubgraphThreadPerExecution ==
    \A e1, e2 \in 1..MaxParents :
        /\ e1 # e2
        /\ sub.runs[e1].thread_id # Null
        /\ sub.runs[e2].thread_id # Null
        /\ sub.runs[e1].node_id = sub.runs[e2].node_id
        => /\ sub.runs[e1].thread_id # sub.runs[e2].thread_id
           /\ \A x \in sub.runs[e1].sub_state : x.by = e1

\* ------------------------------------------------------------------ C24
\* C24: an execution started through execute or execute_stream records one
\* ExecutionStep per node invocation, in the order of the invocations: when
\* the run has ended, the steps of its row name the nodes it invoked, and if
\* it failed in a node, the step of that node has the status failed.
C24_OneStepPerNodeInvocation ==
    \A r \in ReqIds :
        LET q == reqs[r]
        IN  /\ q.op \in {"execute", "execute_stream"}
            /\ q.pc \in {"exit", "raise"}
            /\ q.result # "disconnected"
            => /\ Len(q.row[1].steps) = Len(q.invoked)
               /\ \A k \in 1..Len(q.invoked) :
                     /\ k <= Len(q.row[1].steps)
                     /\ q.row[1].steps[k].node_id = q.invoked[k]
               /\ q.row[1].status = FAILED /\ q.invoked # <<>> =>
                     /\ q.row[1].steps # <<>>
                     /\ Last(q.row[1].steps).status = FAILED

\* ------------------------------------------------------------------ C25
\* C25: the checkpoint of a node's folded state and the ExecutionStep of the
\* node are written atomically: in every state of the two stores the thread
\* of an execution holds a checkpoint after the k-th node if and only if a
\* committed execution of the thread has a step for the k-th node.
C25_CheckpointIffExecutionStep ==
    \A t \in ThreadIds : \A k \in 1..Len(Nodes) :
        (checkpoints[t] # Null /\ checkpoints[t][1].next > k)
        <=> (\E e \in ExecIds :
                /\ db[e] # Null
                /\ db[e][1].thread_id = t
                /\ \E i \in 1..Len(db[e][1].steps) :
                      db[e][1].steps[i].node_id = Nodes[k])

====
